---- MODULE Spec2Model ----
(***************************************************************************)
(* A model of mercury_bot.py: the monitor_loop scan cycle, run by the      *)
(* tasks.loop timer and by the /scrape command, with its exclusivity guard *)
(* (scan_lock), the seen-set (posted_urls) and its file, the stats and the *)
(* notification sinks.  One step of the model is the code between two      *)
(* awaits of one coroutine: asyncio runs that code without interleaving.   *)
(***************************************************************************)
EXTENDS Integers, Sequences, FiniteSets, TLC

\* ------------------------------------------------------------- constants
EMPTY_SCAN_ALERT == 10
LOAD_ATTEMPTS == 3
EXTRACT_CAP == 5
PAGES_TO_SCAN == 10

\* ---------------------------------------------------------------- bounds
\* anchors one crawl can return
MaxFound == 3
\* accepted credential lines one paste can yield
MaxCreds == 1
\* cycles per process lifetime under Spec
MaxScans == 2
\* cycles per process lifetime under SpecStreak
MaxStreakScans == 21
MaxCrawlScans == 1
MaxCapScans == 2
MaxDeliverScans == 2
MaxAnchors == 3
MaxLines == 2
MaxBatch == 2

\* the paste urls the archive can list
Ids == {1, 2}
Titles == {"hotmail"}
Procs == {"timer", "manual"}
Sinks == {"all", "alert", "content", "owner", "telegram"}

\* an anchor scraped from a listing page: {title, url}
Anchors == [url : Ids, title : Titles]

RECURSIVE SeqsUpTo(_, _)
SeqsUpTo(S, n) ==
    IF n = 0 THEN {<<>>}
    ELSE LET shorter == SeqsUpTo(S, n - 1)
         IN  shorter \cup {Append(s, x) : s \in {t \in shorter : Len(t) = n - 1}, x \in S}

\* what the scraped pages of one crawl can add up to (found)
CrawlInputs == SeqsUpTo(Anchors, MaxFound)
\* a quiet archive: nothing matching, or the one paste it ever lists
StreakInputs == {<<>>, <<[url |-> 1, title |-> "hotmail"]>>}

VARIABLES
    pc,            \* where each invocation of monitor_loop / cmd_scrape stands
    scan_lock,     \* asyncio.Lock: TRUE when locked
    stats,         \* the stats dict
    posted_urls,   \* the in-memory seen-set
    seenFile,      \* seen_urls.json
    loc,           \* the locals of each invocation
    alertsSent,    \* "new URL" messages delivered per url in this process
    emptyAlert,    \* empty-streak owner DMs: attempts and deliveries
    mustBeSeen,    \* urls durably marked by the cycle a crash interrupted
    capped,        \* urls that were new beyond the extraction cap in this process
    pure           \* the argument and result of a function applied on its own

vars == <<pc, scan_lock, stats, posted_urls, seenFile, loc, alertsSent, emptyAlert, mustBeSeen, capped, pure>>

\* ------------------------------------------------------------ seen-set file
RECURSIVE SetToList(_)
\* list(seen): the elements of the set, once each
SetToList(S) ==
    IF S = {} THEN <<>>
    ELSE LET m == CHOOSE x \in S : \A y \in S : x <= y
         IN  <<m>> \o SetToList(S \ {m})

ListToSet(s) == {s[i] : i \in 1..Len(s)}

\* the file is missing or does not parse (valid = FALSE), or holds a JSON array
NoFile == [valid |-> FALSE, content |-> <<>>]

load_seen(f) == IF f.valid THEN ListToSet(f.content) ELSE {}

\* save_seen: the write succeeds, open() fails (file untouched), or json.dump
\* fails after open(..., "w") truncated the file; the exception is logged
SaveOutcomes == {"ok", "open_fail", "dump_fail"}

save_seen_stale(seen, f, outcome) ==
    CASE outcome = "ok"        -> [valid |-> TRUE, content |-> SetToList(load_seen(f))]
      [] outcome = "open_fail" -> f
      [] OTHER                 -> NoFile

save_seen(seen, f, outcome) ==
    CASE outcome = "ok"        -> [valid |-> TRUE, content |-> SetToList(seen)]
      [] outcome = "open_fail" -> f
      [] OTHER                 -> NoFile

\* ------------------------------------------------------------- pure steps
Urls(s) == {s[i].url : i \in 1..Len(s)}

RECURSIVE DedupFrom(_, _, _)
DedupFrom(found, seen_this_run, pastes) ==
    IF found = <<>> THEN pastes
    ELSE IF Head(found).url \notin seen_this_run
         THEN DedupFrom(Tail(found), seen_this_run \cup {Head(found).url}, Append(pastes, Head(found)))
         ELSE DedupFrom(Tail(found), seen_this_run, pastes)

\* keeps, for every url, the anchor of its last occurrence
Dedup_lastLabel(found) ==
    LET first == DedupFrom(found, {}, <<>>)
    IN  [i \in 1..Len(first) |->
           found[CHOOSE j \in 1..Len(found) :
                   /\ found[j].url = first[i].url
                   /\ \A k \in 1..Len(found) : found[k].url = first[i].url => k <= j]]

\* "Deduplicate within this run"
Dedup(found) == DedupFrom(found, {}, <<>>)

IsNew(item, seen) == item.url \notin seen

NewPastes_fromFile(pastes, seen) ==
    SelectSeq(pastes, LAMBDA item : IsNew(item, load_seen(seenFile)))

\* new_pastes = [p for p in pastes if p["url"] not in posted_urls]
NewPastes(pastes, seen) == SelectSeq(pastes, LAMBDA item : IsNew(item, seen))

MarkSeen_none(seen, new_pastes) == seen

MarkSeen_replace(seen, new_pastes) == Urls(new_pastes)

\* for p in new_pastes: posted_urls.add(p["url"])
MarkSeen(seen, new_pastes) == seen \cup Urls(new_pastes)

Locked_never(lock) == FALSE

\* if scan_lock.locked(): skip
Locked(lock) == lock

AtAlertThreshold_atLeast(n) == n >= EMPTY_SCAN_ALERT

AtAlertThreshold_multiple(n) == n % EMPTY_SCAN_ALERT = 0

\* if stats["empty_scans"] == EMPTY_SCAN_ALERT
AtAlertThreshold(n) == n = EMPTY_SCAN_ALERT

Capped_all(new_pastes) == new_pastes

AddBlock_always(combined, n) == Append(combined, n)

\* if creds: combined.append(...): a paste's block of n accepted lines
AddBlock(combined, n) == IF n > 0 THEN Append(combined, n) ELSE combined

\* new_pastes[:5]
Capped(new_pastes) == SubSeq(new_pastes, 1, IF Len(new_pastes) < EXTRACT_CAP THEN Len(new_pastes) ELSE EXTRACT_CAP)

\* ------------------------------------------------------------------- text
\* A text is a sequence of characters; str.strip() and str.lower() are
\* computed on the characters the model uses.
Whitespace == {" ", "\t", "\n", "\r"}

RECURSIVE LStrip(_)
LStrip(s) == IF s # <<>> /\ Head(s) \in Whitespace THEN LStrip(Tail(s)) ELSE s

RECURSIVE RStrip(_)
RStrip(s) ==
    IF s # <<>> /\ s[Len(s)] \in Whitespace THEN RStrip(SubSeq(s, 1, Len(s) - 1)) ELSE s

\* str.strip()
Strip(s) == RStrip(LStrip(s))

UpperCase == <<"A", "B", "C", "D", "E", "F", "G", "H", "I", "J", "K", "L", "M",
               "N", "O", "P", "Q", "R", "S", "T", "U", "V", "W", "X", "Y", "Z">>
LowerCase == <<"a", "b", "c", "d", "e", "f", "g", "h", "i", "j", "k", "l", "m",
               "n", "o", "p", "q", "r", "s", "t", "u", "v", "w", "x", "y", "z">>

\* the lower-case letter of every upper-case letter
LowerOf == [c \in {UpperCase[i] : i \in 1..Len(UpperCase)} |->
              LowerCase[CHOOSE i \in 1..Len(UpperCase) : UpperCase[i] = c]]

LowerChar(c) == IF c \in DOMAIN LowerOf THEN LowerOf[c] ELSE c

\* str.lower()
Lower(s) == [i \in 1..Len(s) |-> LowerChar(s[i])]

\* Python's None: what get_attribute returns for an attribute the element
\* does not have, what text_content returns for no text
None == "None"

\* -------------------------------------------------------------- validator
Letters == {UpperCase[i] : i \in 1..Len(UpperCase)} \cup {LowerCase[i] : i \in 1..Len(LowerCase)}
Digits == {"0", "1", "2", "3", "4", "5", "6", "7", "8", "9"}

\* the characters of the model's alphabet that EMOJI_RE matches, each written
\* as its code point
EmojiChars == {"U+2600", "U+1F600"}

\* EMOJI_RE.search(line)
HasEmoji(line) == \E i \in 1..Len(line) : line[i] \in EmojiChars

\* needle in hay
Contains(hay, needle) ==
    \E i \in 0..(Len(hay) - Len(needle)) :
        \A j \in 1..Len(needle) : hay[i + j] = needle[j]

JUNK_DOMAINS == {
    <<"t", ".", "m", "e">>,
    <<"t", "e", "l", "e", "g", "r", "a", "m", ".", "m", "e">>,
    <<"t", "e", "l", "e", "g", "r", "a", "m", ".", "d", "o", "g">>,
    <<"d", "i", "s", "c", "o", "r", "d", ".", "g", "g">>,
    <<"h", "t", "t", "p", ":", "/", "/">>,
    <<"h", "t", "t", "p", "s", ":", "/", "/">>,
    <<"l", "o", "w", "z", "a">> }

\* VALID_EMAIL_RE.match(email): local part, "@", domain, ".", two letters or
\* more (email is stripped, so "$" is the end of the text)
VALID_EMAIL_RE(email) ==
    \E i, j \in 1..Len(email) :
        /\ 1 < i /\ i + 1 < j /\ j + 1 < Len(email)
        /\ email[i] = "@" /\ email[j] = "."
        /\ \A k \in 1..(i - 1) : email[k] \in Letters \cup Digits \cup {".", "_", "%", "+", "-"}
        /\ \A k \in (i + 1)..(j - 1) : email[k] \in Letters \cup Digits \cup {".", "-"}
        /\ \A k \in (j + 1)..Len(email) : email[k] \in Letters

\* the position of the first character of s that is in set, 0 when none is
FirstOf(s, set) ==
    LET at == {i \in 1..Len(s) : s[i] \in set}
    IN  IF at = {} THEN 0 ELSE CHOOSE i \in at : \A j \in at : i <= j

MAX_LINE == 200
MIN_PASSWORD == 3

is_valid_combo(line) ==
    IF line = <<>> \/ Len(line) > MAX_LINE THEN FALSE
    ELSE IF Contains(line, <<"|">>) THEN FALSE
    ELSE IF HasEmoji(line) THEN FALSE
    ELSE IF \E d \in JUNK_DOMAINS : Contains(Lower(line), d) THEN FALSE
    ELSE IF ~Contains(line, <<":">>) THEN FALSE
    ELSE LET colon == FirstOf(line, {":"})
             email == Strip(SubSeq(line, 1, colon - 1))
             password == Strip(SubSeq(line, colon + 1, Len(line)))
         IN  IF Len(password) < MIN_PASSWORD THEN FALSE
             ELSE VALID_EMAIL_RE(email)

\* the line boundaries of str.splitlines() that are in the model's alphabet
LineBreaks == {"\n", "\r"}

\* raw.splitlines(): "\r\n" is one boundary, no empty last line
RECURSIVE SplitLines(_)
SplitLines(raw) ==
    IF raw = <<>> THEN <<>>
    ELSE LET i == FirstOf(raw, LineBreaks)
         IN  IF i = 0 THEN <<raw>>
             ELSE LET skip == IF raw[i] = "\r" /\ i < Len(raw) /\ raw[i + 1] = "\n"
                              THEN 2 ELSE 1
                  IN  <<SubSeq(raw, 1, i - 1)>> \o SplitLines(SubSeq(raw, i + skip, Len(raw)))

\* "\n".join(lines)
RECURSIVE JoinLines(_)
JoinLines(lines) ==
    IF lines = <<>> THEN <<>>
    ELSE IF Len(lines) = 1 THEN lines[1]
    ELSE lines[1] \o <<"\n">> \o JoinLines(Tail(lines))

\* the loop of extract_credentials over the lines left, with seen and lines
RECURSIVE Collect(_, _, _)
Collect(rest, seen, lines) ==
    IF rest = <<>> THEN lines
    ELSE LET line == Strip(Head(rest))
         IN  IF line # <<>> /\ is_valid_combo(line) /\ line \notin seen
             THEN Collect(Tail(rest), seen \cup {line}, Append(lines, line))
             ELSE Collect(Tail(rest), seen, lines)

RECURSIVE Collect_unstripped(_, _, _)
Collect_unstripped(rest, seen, lines) ==
    IF rest = <<>> THEN lines
    ELSE LET line == Head(rest)
         IN  IF Strip(line) # <<>> /\ is_valid_combo(Strip(line)) /\ line \notin seen
             THEN Collect_unstripped(Tail(rest), seen \cup {line}, Append(lines, line))
             ELSE Collect_unstripped(Tail(rest), seen, lines)

extract_credentials_unstripped(raw) == Collect_unstripped(SplitLines(raw), {}, <<>>)

extract_credentials(raw) == Collect(SplitLines(raw), {}, <<>>)

\* c * n
Repeat(c, n) == [i \in 1..n |-> c]

\* the lines a paste is made of
PasteLines == {
    \* a valid combo
    <<"a", "@", "b", ".", "c", "c", ":", "p", "w", "1">>,
    \* the same combo in whitespace
    <<" ", "a", "@", "b", ".", "c", "c", ":", "p", "w", "1", "\t">>,
    \* upper case, blanks around the colon, a colon in the password
    <<"A", "@", "b", ".", "c", "c", " ", ":", " ", "p", ":", "1">>,
    \* a password of two characters
    <<"a", "@", "b", ".", "c", "c", ":", "p", "w">>,
    \* a top-level domain of one letter
    <<"a", "@", "b", ".", "c", ":", "p", "w", "1">>,
    \* a pipe
    <<"a", "@", "b", ".", "c", "c", ":", "p", "|", "1">>,
    \* an emoji
    <<"a", "@", "b", ".", "c", "c", ":", "p", "w", "U+2600">>,
    \* a junk domain in upper case
    <<"x", "@", "T", ".", "m", "e", ":", "p", "w", "1">>,
    \* no colon
    <<"a", "@", "b", ".", "c", "c", " ", "p", "w", "1">>,
    \* a valid combo before a carriage return
    <<"u", "-", "1", "@", "d", ".", "i", "o", ":", "p", "+", "2", "\r">>,
    \* an empty line
    <<>>,
    \* a combo of MAX_LINE + 1 characters
    <<"a", "@", "b", ".", "c", "c", ":">> \o Repeat("p", MAX_LINE - 6) }

\* the raw texts: up to MaxLines lines joined by "\n"
RawTexts == {JoinLines(lines) : lines \in SeqsUpTo(PasteLines, MaxLines)}

\* ------------------------------------------------------------- extractor
\* a text that is None (null in the page)
NoneText == <<None>>

\* "raw and raw.strip()"
NonBlank(raw) == raw # NoneText /\ raw # <<>> /\ Strip(raw) # <<>>

\* "\n".join([(await l.text_content() or "").strip() for l in lines])
LinesText(lines) ==
    JoinLines([i \in 1..Len(lines) |-> IF lines[i] = NoneText THEN <<>> ELSE Strip(lines[i])])

EXTRACT_ATTEMPTS == 2

\* what one navigation to a paste meets: the await that raises if it is
\* reached (exc), the value of the editor buffer, the texts of the rendered
\* lines, and the pre element
EditorValues == {NoneText, <<" ", "\n">>, <<"e", "d">>}
RenderedLines == {<<>>, <<NoneText, <<" ">>>>, << <<" ", "l", "1">>, <<>>, <<"l", "2", "\t">> >>}
PreValues == {NoneText, <<"\n">>, <<"p", "r", "e">>}
Navigations ==
    [exc : {"none", "goto", "editor", "lines", "pre"}, editor : EditorValues,
     lines : RenderedLines, has_pre : {TRUE}, pre : PreValues]
    \cup [exc : {"none", "goto", "editor", "lines", "pre"}, editor : EditorValues,
          lines : RenderedLines, has_pre : {FALSE}, pre : {NoneText}]

\* lines 159-199: one pass of the loop body; returned tells whether it reached
\* "return raw", caught whether it ended in the except clause
Attempt(nav) ==
    LET caught   == [returned |-> FALSE, caught |-> TRUE, raw |-> <<>>]
        return(raw) == [returned |-> TRUE, caught |-> FALSE, raw |-> raw]
        lines    == LinesText(nav.lines)
        last     == IF nav.has_pre THEN nav.pre ELSE lines
    IN  IF nav.exc \in {"goto", "editor"} THEN caught
        ELSE IF NonBlank(nav.editor) THEN return(nav.editor)
        ELSE IF nav.exc = "lines" THEN caught
        ELSE IF NonBlank(lines) THEN return(lines)
        ELSE IF nav.exc = "pre" THEN caught
        ELSE IF NonBlank(last) THEN return(last)
        ELSE [returned |-> FALSE, caught |-> FALSE, raw |-> <<>>]

\* the loop "for attempt in range(2)" from attempt i on, then return ""
RECURSIVE ExtractFrom(_, _)
ExtractFrom(navs, i) ==
    IF i > EXTRACT_ATTEMPTS THEN [raw |-> <<>>, navigations |-> EXTRACT_ATTEMPTS, raised |-> FALSE]
    ELSE LET a == Attempt(navs[i])
         IN  IF a.returned THEN [raw |-> a.raw, navigations |-> i, raised |-> FALSE]
             ELSE ExtractFrom(navs, i + 1)

extract_raw_lastRaises(navs) ==
    LET r == ExtractFrom(navs, 1)
    IN  IF r.raw = <<>> /\ Attempt(navs[EXTRACT_ATTEMPTS]).caught
        THEN [r EXCEPT !.raised = TRUE] ELSE r

\* extract_raw(page, url), navs[i] being what attempt i meets
extract_raw(navs) == ExtractFrom(navs, 1)

\* a paste that cannot be opened and a paste whose editor holds text
PlainPastes == {
    [i \in 1..EXTRACT_ATTEMPTS |->
        [exc |-> "goto", editor |-> NoneText, lines |-> <<>>, has_pre |-> FALSE, pre |-> NoneText]],
    [i \in 1..EXTRACT_ATTEMPTS |->
        [exc |-> "none", editor |-> <<"e", "d">>, lines |-> <<>>, has_pre |-> FALSE, pre |-> NoneText]] }

\* the batches of new pastes: any first paste, then plain ones
Batches ==
    {<<first>> \o rest : first \in [1..EXTRACT_ATTEMPTS -> Navigations],
                         rest \in SeqsUpTo(PlainPastes, MaxBatch - 1)}

\* ------------------------------------------------------------- pagination
\* the labels of line 253
FORWARD_LABELS == {<<"n", "e", "x", "t">>, <<">">>, <<"»">>, <<"→">>, <<"▶">>}

\* if text and text.strip().lower() in [...] (an element without text is the
\* empty text here)
IsForward(btn) == btn.text # <<>> /\ Lower(Strip(btn.text)) \in FORWARD_LABELS

IsDisabled_nativeOnly(btn) == btn.disabled # None

\* if disabled is not None or aria_dis == "true"
IsDisabled(btn) == btn.disabled # None \/ btn.aria_disabled = "true"

\* lines 251-253: the position of the first button with a forward label, 0
\* when there is none
FirstForward(buttons) ==
    LET forward == {i \in 1..Len(buttons) : IsForward(buttons[i])}
    IN  IF forward = {} THEN 0 ELSE CHOOSE i \in forward : \A j \in forward : i <= j

\* lines 251-262: the position of the button that is clicked, 0 when the loop
\* over the buttons ends or breaks without a click
NextControl(buttons) ==
    LET first == FirstForward(buttons)
    IN  IF first = 0 THEN 0
        ELSE IF IsDisabled(buttons[first]) THEN 0 ELSE first

\* no button: what the crawl has looked at before it looks for a next page
NoButton == [text |-> <<>>, disabled |-> None, aria_disabled |-> None]

\* the buttons a listing page can show
Buttons == {
    [text |-> <<"P", "r", "e", "v">>, disabled |-> None, aria_disabled |-> None],
    [text |-> <<" ", "N", "e", "x", "t", "\n">>, disabled |-> None, aria_disabled |-> None],
    [text |-> <<" ", "N", "e", "x", "t", "\n">>, disabled |-> "", aria_disabled |-> None],
    [text |-> <<"n", "e", "x", "t">>, disabled |-> None, aria_disabled |-> "true"],
    [text |-> <<"»">>, disabled |-> None, aria_disabled |-> "false"] }

\* ------------------------------------------------------------------ state
StatsInit == [total_pastes |-> 0, total_combos |-> 0, scans |-> 0, empty_scans |-> 0]

LocInit == [
    attempt      |-> 0,
    pastes       |-> <<>>,
    new_pastes   |-> <<>>,
    k            |-> 0,
    combined     |-> <<>>,
    browser      |-> FALSE,
    saved        |-> FALSE,
    crawl_failed |-> FALSE,
    skipped      |-> FALSE,
    attempted    |-> {},
    snap         |-> <<>>,
    pages        |-> PAGES_TO_SCAN,
    page_num     |-> 0,
    found        |-> <<>>,
    visited      |-> 0,
    stop         |-> "",
    control      |-> NoButton,
    cycled       |-> FALSE,
    alerted      |-> 0,
    yielding     |-> 0,
    artifacts    |-> <<>> ]

EmptyAlertInit == [attempts |-> 0, streakSent |-> 0, sent |-> 0]

\* the module is imported: posted_urls = load_seen(); the timer starts in on_ready
Boot(f) ==
    /\ pc = [p \in Procs |-> IF p = "timer" THEN "stopped" ELSE "idle"]
    /\ scan_lock = FALSE
    /\ stats = StatsInit
    /\ posted_urls = load_seen(f)
    /\ seenFile = f
    /\ loc = [p \in Procs |-> LocInit]
    /\ alertsSent = [x \in Ids |-> 0]
    /\ emptyAlert = EmptyAlertInit

\* no function is being applied on its own
NoPure == [fn |-> "none"]

Init == Boot(NoFile) /\ mustBeSeen = {} /\ capped = {} /\ pure = NoPure

\* ------------------------------------------------------ leaving the cycle
InCycle == {"launch", "new_page", "load", "scrape", "post_all", "dm_empty", "alerts",
            "resolve_content", "extract", "send_content", "dm_owner", "telegram", "close"}

\* where control goes when monitor_loop returns: the timer sleeps until its
\* next tick, cmd_scrape goes on to its followup
AfterReturn(p) == IF p = "timer" THEN "idle" ELSE "followup"

\* lines 212-214: the channel cannot be resolved: log and return
NoChannel(p) ==
    /\ pc' = [pc EXCEPT ![p] = AfterReturn(p)]
    /\ loc' = [loc EXCEPT ![p] = [LocInit EXCEPT !.pages = loc[p].pages]]
    /\ UNCHANGED <<scan_lock, stats>>

Skip_counted(p) ==
    /\ pc' = [pc EXCEPT ![p] = AfterReturn(p)]
    /\ loc' = [loc EXCEPT ![p] = [LocInit EXCEPT !.skipped = TRUE, !.pages = loc[p].pages]]
    /\ stats' = [stats EXCEPT !.scans = @ + 1]
    /\ UNCHANGED scan_lock

\* lines 216-218: "Scan already in progress, skipping this cycle": return
Skip(p) ==
    /\ pc' = [pc EXCEPT ![p] = AfterReturn(p)]
    /\ loc' = [loc EXCEPT ![p] = [LocInit EXCEPT !.skipped = TRUE, !.pages = loc[p].pages]]
    /\ UNCHANGED <<scan_lock, stats>>

PlaywrightExit_leak(browser) == browser

\* line 224: leaving "async with async_playwright()" stops the driver, and
\* with it a browser that browser.close() did not close
PlaywrightExit(browser) == FALSE

\* what is left of the locals l of p's invocation once "async with
\* async_playwright()" is left: the session and, for cmd_scrape, which awaits
\* monitor_loop and then reports, what was asked for and what was done
AfterExit(p, l) ==
    IF p = "manual"
    THEN [LocInit EXCEPT !.browser = PlaywrightExit(l.browser),
                         !.pages = l.pages, !.visited = l.visited, !.cycled = l.cycled]
    ELSE [LocInit EXCEPT !.browser = PlaywrightExit(l.browser)]

\* monitor_loop returns from inside "async with scan_lock": the lock is released
Return(p, l) ==
    /\ pc' = [pc EXCEPT ![p] = AfterReturn(p)]
    /\ loc' = [loc EXCEPT ![p] = AfterExit(p, l)]
    /\ scan_lock' = FALSE

\* an exception leaves monitor_loop through "async with scan_lock"
Raise(p, l) ==
    /\ pc' = [pc EXCEPT ![p] = "raised"]
    /\ loc' = [loc EXCEPT ![p] = AfterExit(p, l)]
    /\ scan_lock' = FALSE

\* the try/finally of the cycle: control reaches browser.close()
ToClose(p, l) ==
    /\ pc' = [pc EXCEPT ![p] = "close"]
    /\ loc' = [loc EXCEPT ![p] = l]

Goto(p, label, l) ==
    /\ pc' = [pc EXCEPT ![p] = label]
    /\ loc' = [loc EXCEPT ![p] = l]

\* ---------------------------------------------------------------- events
\* on_ready: monitor_loop.start() unless it is running
on_ready ==
    /\ pc["timer"] = "stopped"
    /\ pc' = [pc EXCEPT !["timer"] = "idle"]
    /\ UNCHANGED <<scan_lock, stats, posted_urls, seenFile, loc, alertsSent, emptyAlert, mustBeSeen, capped, pure>>

\* on_resumed: monitor_loop.start() unless it is running
on_resumed ==
    /\ pc["timer"] = "stopped"
    /\ pc' = [pc EXCEPT !["timer"] = "idle"]
    /\ UNCHANGED <<scan_lock, stats, posted_urls, seenFile, loc, alertsSent, emptyAlert, mustBeSeen, capped, pure>>

\* the tasks.loop timer fires and calls monitor_loop
Tick(maxScans) ==
    /\ pc["timer"] = "idle"
    /\ stats.scans < maxScans
    /\ pc' = [pc EXCEPT !["timer"] = "get_channel"]
    /\ loc' = [loc EXCEPT !["timer"] = LocInit]
    /\ UNCHANGED <<scan_lock, stats, posted_urls, seenFile, alertsSent, emptyAlert, mustBeSeen, capped, pure>>

\* /scrape: "Scanning n page(s)..." is sent, then monitor_loop() is awaited
\* pages is the command's parameter (default PAGES_TO_SCAN)
cmd_scrape(maxScans, pageChoices) ==
    /\ pc["manual"] = "idle"
    /\ stats.scans < maxScans
    /\ pc' = [pc EXCEPT !["manual"] = "get_channel"]
    /\ \E pages \in pageChoices :
        loc' = [loc EXCEPT !["manual"] = [LocInit EXCEPT !.pages = pages]]
    /\ UNCHANGED <<scan_lock, stats, posted_urls, seenFile, alertsSent, emptyAlert, mustBeSeen, capped, pure>>

\* cmd_scrape after monitor_loop returned: followup "Done."
Followup ==
    /\ pc["manual"] = "followup"
    /\ pc' = [pc EXCEPT !["manual"] = "idle"]
    /\ loc' = [loc EXCEPT !["manual"] = LocInit]
    /\ UNCHANGED <<scan_lock, stats, posted_urls, seenFile, alertsSent, emptyAlert, mustBeSeen, capped, pure>>

\* an exception that left monitor_loop: tasks.loop stops the timer loop, the
\* command framework reports the failed /scrape
AfterRaise(p) ==
    /\ pc[p] = "raised"
    /\ pc' = [pc EXCEPT ![p] = IF p = "timer" THEN "stopped" ELSE "idle"]
    /\ UNCHANGED <<scan_lock, stats, posted_urls, seenFile, loc, alertsSent, emptyAlert, mustBeSeen, capped, pure>>

CountScan_not(s) == s

\* line 222: stats["scans"] += 1, right after the lock is taken
CountScan(s) == [s EXCEPT !.scans = @ + 1]

\* ------------------------------------------------------------- the cycle
\* lines 210-222: resolve the channel, test the guard, take it, count the scan
GetChannel(p) ==
    /\ pc[p] = "get_channel"
    /\ \E ok \in BOOLEAN :
        IF ~ok
        THEN NoChannel(p)
        ELSE IF Locked(scan_lock)
        THEN Skip(p)
        ELSE IF scan_lock
        THEN \* "async with scan_lock" on a held lock waits for its release
             /\ pc' = [pc EXCEPT ![p] = "wait_lock"]
             /\ UNCHANGED <<scan_lock, stats, loc>>
        ELSE /\ scan_lock' = TRUE
             /\ stats' = CountScan(stats)
             /\ pc' = [pc EXCEPT ![p] = "launch"]
             /\ loc' = [loc EXCEPT ![p] = [LocInit EXCEPT
                           !.pages = loc[p].pages, !.cycled = TRUE,
                           !.snap = <<posted_urls, seenFile, stats, alertsSent, emptyAlert>>]]
    /\ UNCHANGED <<posted_urls, seenFile, alertsSent, emptyAlert, mustBeSeen, capped, pure>>

\* lines 224-228: start playwright and launch the browser, outside the try
Launch(p) ==
    /\ pc[p] = "launch"
    /\ \E ok \in BOOLEAN :
        IF ok
        THEN /\ Goto(p, "new_page", [loc[p] EXCEPT !.browser = TRUE])
             /\ UNCHANGED scan_lock
        ELSE Raise(p, loc[p])
    /\ UNCHANGED <<stats, posted_urls, seenFile, alertsSent, emptyAlert, mustBeSeen, capped, pure>>

\* line 229: open the page in the launched browser, outside the try
NewPage(p) ==
    /\ pc[p] = "new_page"
    /\ \E ok \in BOOLEAN :
        IF ok
        THEN /\ Goto(p, "load", [loc[p] EXCEPT !.attempt = 0])
             /\ UNCHANGED scan_lock
        ELSE Raise(p, loc[p])
    /\ UNCHANGED <<stats, posted_urls, seenFile, alertsSent, emptyAlert, mustBeSeen, capped, pure>>

Load_raises(p) ==
    /\ pc[p] = "load"
    /\ \E ok \in BOOLEAN :
        IF ok
        THEN Goto(p, "scrape", loc[p]) /\ UNCHANGED scan_lock
        ELSE IF loc[p].attempt = LOAD_ATTEMPTS - 1
        THEN Raise(p, loc[p])
        ELSE Goto(p, "load", [loc[p] EXCEPT !.attempt = @ + 1]) /\ UNCHANGED scan_lock
    /\ UNCHANGED <<stats, posted_urls, seenFile, alertsSent, emptyAlert, mustBeSeen, capped, pure>>

\* lines 233-243: one attempt to load the archive
Load(p) ==
    /\ pc[p] = "load"
    /\ \E ok \in BOOLEAN :
        IF ok
        THEN Goto(p, "scrape", loc[p])
        ELSE IF loc[p].attempt = LOAD_ATTEMPTS - 1
        THEN ToClose(p, [loc[p] EXCEPT !.crawl_failed = TRUE])
        ELSE Goto(p, "load", [loc[p] EXCEPT !.attempt = @ + 1])
    /\ UNCHANGED <<scan_lock, stats, posted_urls, seenFile, alertsSent, emptyAlert, mustBeSeen, capped, pure>>

ScrapeFails_asEmpty(p) ==
    /\ pc[p] = "scrape"
    /\ ToClose(p, [loc[p] EXCEPT !.crawl_failed = TRUE])
    /\ stats' = [stats EXCEPT !.empty_scans = @ + 1]
    /\ UNCHANGED <<scan_lock, posted_urls, seenFile, alertsSent, emptyAlert, mustBeSeen, capped, pure>>

\* lines 246-298: scrape the pages; an error goes to "except Exception" (395)
ScrapeFails(p) ==
    /\ pc[p] = "scrape"
    /\ ToClose(p, [loc[p] EXCEPT !.crawl_failed = TRUE])
    /\ UNCHANGED <<scan_lock, stats, posted_urls, seenFile, alertsSent, emptyAlert, mustBeSeen, capped, pure>>

\* lines 246-298: the pages are scraped, deduplicated and counted
Scrape(p, inputs) ==
    /\ pc[p] = "scrape"
    /\ \E found \in inputs :
        LET pastes == Dedup(found)
        IN  /\ stats' = [stats EXCEPT !.total_pastes = @ + Len(pastes)]
            /\ Goto(p, "post_all", [loc[p] EXCEPT !.pastes = pastes])
    /\ UNCHANGED <<scan_lock, posted_urls, seenFile, alertsSent, emptyAlert, mustBeSeen, capped, pure>>

\* the listing pages the crawl can meet: the buttons of the page it is on when
\* it looks for the next one, and the matches of the page it then scrapes
ListingPages == [buttons : {<<>>} \cup {<<b>> : b \in Buttons}
                             \cup {<<b, c>> : b \in Buttons, c \in Buttons},
                 matches : {<<>>, <<[url |-> 1, title |-> "hotmail"]>>}]

\* why the loop over the pages ended
StopReason(n, buttons) ==
    IF n > 1 /\ NextControl(buttons) = 0
    THEN IF \E i \in 1..Len(buttons) : IsForward(buttons[i]) THEN "disabled" ELSE "no_control"
    ELSE IF n = PAGES_TO_SCAN THEN "limit" ELSE ""

\* lines 246-298: one iteration of "for page_num in range(1, PAGES_TO_SCAN + 1)"
\* (the pages parameter of /scrape is not used); when the loop ends the anchors
\* are deduplicated and counted with no await in between
ScrapePageWith(p, page) ==
    /\ pc[p] = "scrape"
    /\ LET n == loc[p].page_num + 1
           navigated == n = 1 \/ NextControl(page.buttons) > 0
           stop == StopReason(n, page.buttons)
           first == FirstForward(page.buttons)
           l == [loc[p] EXCEPT !.page_num = n, !.stop = stop,
                               !.control = IF n > 1 /\ first > 0
                                           THEN page.buttons[first] ELSE NoButton,
                               !.found = IF navigated THEN @ \o page.matches ELSE @,
                               !.visited = IF navigated THEN @ + 1 ELSE @]
       IN  IF stop = ""
           THEN /\ Goto(p, "scrape", l)
                /\ UNCHANGED stats
           ELSE LET pastes == Dedup(l.found)
                IN  /\ stats' = [stats EXCEPT !.total_pastes = @ + Len(pastes)]
                    /\ Goto(p, "post_all", [l EXCEPT !.pastes = pastes])
    /\ UNCHANGED <<scan_lock, posted_urls, seenFile, alertsSent, emptyAlert, mustBeSeen, capped, pure>>

ScrapePage(p, pages) == \E page \in pages : ScrapePageWith(p, page)

\* lines 301-320: post every url to channel 1 (post_pastes), then filter the
\* new pastes, keep the streak, mark seen and save
PostAll(p, oks) ==
    /\ pc[p] = "post_all"
    /\ \E sent_ok \in oks, outcome \in SaveOutcomes :
        LET l1 == IF loc[p].pastes = <<>> THEN loc[p]
                  ELSE [loc[p] EXCEPT !.attempted = @ \cup {"all"}]
            new_pastes == NewPastes(loc[p].pastes, posted_urls)
            l2 == [l1 EXCEPT !.new_pastes = new_pastes]
        IN  IF new_pastes = <<>>
            THEN LET n == stats.empty_scans + 1
                 IN  /\ stats' = [stats EXCEPT !.empty_scans = n]
                     /\ outcome = "ok"
                     /\ UNCHANGED <<posted_urls, seenFile>>
                     /\ IF AtAlertThreshold(n)
                        THEN /\ Goto(p, "dm_empty", l2)
                             /\ emptyAlert' = [emptyAlert EXCEPT !.attempts = @ + 1]
                        ELSE /\ ToClose(p, l2)
                             /\ UNCHANGED emptyAlert
            ELSE /\ stats' = [stats EXCEPT !.empty_scans = 0]
                 /\ emptyAlert' = [emptyAlert EXCEPT !.attempts = 0, !.streakSent = 0]
                 /\ posted_urls' = MarkSeen(posted_urls, new_pastes)
                 /\ seenFile' = save_seen(posted_urls', seenFile, outcome)
                 /\ Goto(p, "alerts", [l2 EXCEPT !.saved = (outcome = "ok")])
    /\ LET new_pastes == NewPastes(loc[p].pastes, posted_urls)
       IN  capped' = capped \cup (Urls(new_pastes) \ Urls(Capped(new_pastes)))
    /\ UNCHANGED <<scan_lock, alertsSent, mustBeSeen, pure>>

\* lines 309-314: DM the owner about the empty streak, then return
DmEmpty(p) ==
    /\ pc[p] = "dm_empty"
    /\ \E ok \in BOOLEAN :
        emptyAlert' = IF ok THEN [emptyAlert EXCEPT !.streakSent = @ + 1, !.sent = @ + 1]
                      ELSE emptyAlert
    /\ ToClose(p, [loc[p] EXCEPT !.attempted = @ \cup {"owner"}])
    /\ UNCHANGED <<scan_lock, stats, posted_urls, seenFile, alertsSent, mustBeSeen, capped, pure>>

\* lines 323-327 and post_new_alerts: one message per new paste, each send
\* guarded; a channel that cannot be resolved skips them all
Alerts(p, oks) ==
    /\ pc[p] = "alerts"
    /\ \E resolved \in oks, failed \in SUBSET (1..Len(loc[p].new_pastes)) :
        /\ ~resolved => failed = {}
        /\ failed # {} => FALSE \in oks
        /\ alertsSent' =
             IF resolved
             THEN [x \in Ids |-> alertsSent[x] +
                     Cardinality({i \in 1..Len(loc[p].new_pastes) :
                                    i \notin failed /\ loc[p].new_pastes[i].url = x})]
             ELSE alertsSent
        /\ Goto(p, "resolve_content",
                [loc[p] EXCEPT !.attempted = @ \cup {"alert"},
                               !.alerted = IF resolved
                                           THEN Len(loc[p].new_pastes) - Cardinality(failed)
                                           ELSE 0])
    /\ UNCHANGED <<scan_lock, stats, posted_urls, seenFile, emptyAlert, mustBeSeen, capped, pure>>

\* line 331: resolve the content channel; a failure goes to "except" (392)
ResolveContent(p, oks) ==
    /\ pc[p] = "resolve_content"
    /\ \E ok \in oks :
        IF ok
        THEN Goto(p, "extract", [loc[p] EXCEPT !.k = 0, !.combined = <<>>])
        ELSE ToClose(p, [loc[p] EXCEPT !.attempted = @ \cup {"content"}])
    /\ UNCHANGED <<scan_lock, stats, posted_urls, seenFile, alertsSent, emptyAlert, mustBeSeen, capped, pure>>

\* lines 334-347: extract_raw and extract_credentials for the next capped new
\* paste; n is the number of accepted lines (0: nothing extracted or accepted)
Extract(p) ==
    /\ pc[p] = "extract"
    /\ \E n \in 0..MaxCreds :
        LET combined == AddBlock(loc[p].combined, n)
            k == loc[p].k + 1
            l == [loc[p] EXCEPT !.k = k, !.combined = combined,
                                !.yielding = IF n > 0 THEN @ + 1 ELSE @]
        IN  /\ stats' = [stats EXCEPT !.total_combos = @ + n]
            /\ IF k < Len(Capped(loc[p].new_pastes))
               THEN Goto(p, "extract", l)
               ELSE IF combined # <<>>
               THEN Goto(p, "send_content", l)
               ELSE ToClose(p, l)
    /\ UNCHANGED <<scan_lock, posted_urls, seenFile, alertsSent, emptyAlert, mustBeSeen, capped, pure>>

\* line 366: the bundle goes to the content channel; a failure goes to 392
SendContent(p, oks) ==
    /\ pc[p] = "send_content"
    /\ \E ok \in oks :
        LET l == [loc[p] EXCEPT !.attempted = @ \cup {"content"}]
        IN  IF ok
            THEN Goto(p, "dm_owner", [l EXCEPT !.artifacts = Append(@, Len(l.combined))])
            ELSE ToClose(p, l)
    /\ UNCHANGED <<scan_lock, stats, posted_urls, seenFile, alertsSent, emptyAlert, mustBeSeen, capped, pure>>

\* lines 370-375: DM the owner, guarded
DmOwner(p) ==
    /\ pc[p] = "dm_owner"
    /\ Goto(p, "telegram", [loc[p] EXCEPT !.attempted = @ \cup {"owner"}])
    /\ UNCHANGED <<scan_lock, stats, posted_urls, seenFile, alertsSent, emptyAlert, mustBeSeen, capped, pure>>

\* lines 378-387: send_telegram_file, guarded inside
Telegram(p) ==
    /\ pc[p] = "telegram"
    /\ ToClose(p, [loc[p] EXCEPT !.attempted = @ \cup {"telegram"}])
    /\ UNCHANGED <<scan_lock, stats, posted_urls, seenFile, alertsSent, emptyAlert, mustBeSeen, capped, pure>>

\* lines 397-398: finally: await browser.close(); then the cycle returns
Close(p) ==
    /\ pc[p] = "close"
    /\ \E ok \in BOOLEAN :
        IF ok THEN Return(p, [loc[p] EXCEPT !.browser = FALSE]) ELSE Raise(p, loc[p])
    /\ UNCHANGED <<stats, posted_urls, seenFile, alertsSent, emptyAlert, mustBeSeen, capped, pure>>

\* the process dies and is started again: every coroutine is gone, the module
\* state is rebuilt, posted_urls = load_seen()
Restart ==
    /\ pc' = [p \in Procs |-> IF p = "timer" THEN "stopped" ELSE "idle"]
    /\ scan_lock' = FALSE
    /\ stats' = StatsInit
    /\ posted_urls' = load_seen(seenFile)
    /\ loc' = [p \in Procs |-> LocInit]
    /\ alertsSent' = [x \in Ids |-> 0]
    /\ emptyAlert' = EmptyAlertInit
    /\ mustBeSeen' = UNION {Urls(loc[p].new_pastes) : p \in {q \in Procs : pc[q] = "extract" /\ loc[q].saved}}
    /\ capped' = {}
    /\ UNCHANGED <<seenFile, pure>>

\* the steps of one cycle after the crawl; oks are the outcomes a call to a
\* sink can have (TRUE: delivered)
AfterCrawl(p, oks) ==
    \/ PostAll(p, oks)
    \/ Alerts(p, oks)
    \/ ResolveContent(p, oks)
    \/ Extract(p)
    \/ SendContent(p, oks)
    \/ DmOwner(p)
    \/ Telegram(p)
    \/ Close(p)
    \/ AfterRaise(p)

CycleStep(p, inputs) ==
    \/ GetChannel(p)
    \/ Launch(p)
    \/ NewPage(p)
    \/ Load(p)
    \/ ScrapeFails(p)
    \/ Scrape(p, inputs)
    \/ AfterCrawl(p, BOOLEAN)

\* Both invocations, every crawl result and failure, crashes and restarts.  A
\* process lives MaxScans cycles here, fewer than EMPTY_SCAN_ALERT, so the
\* empty-streak DM (DmEmpty) is out of reach and is a step of NextStreak.
Next ==
    \/ on_ready
    \/ on_resumed
    \/ Tick(MaxScans)
    \/ cmd_scrape(MaxScans, {PAGES_TO_SCAN})
    \/ Followup
    \/ \E p \in Procs : CycleStep(p, CrawlInputs)
    \/ Restart

Spec == Init /\ [][Next]_vars

\* the timer alone over a quiet archive, long enough for two empty streaks
NextStreak ==
    \/ on_ready
    \/ on_resumed
    \/ Tick(MaxStreakScans)
    \/ CycleStep("timer", StreakInputs)
    \/ DmEmpty("timer")

SpecStreak == Init /\ [][NextStreak]_vars

\* ------------------------------------------------------------ properties
\* the values /scrape is given for pages
PageChoices == {1, PAGES_TO_SCAN}

\* /scrape alone, with the crawl taken one listing page at a time
NextCrawl ==
    \/ cmd_scrape(MaxCrawlScans, PageChoices)
    \/ Followup
    \/ GetChannel("manual")
    \/ Launch("manual")
    \/ NewPage("manual")
    \/ Load("manual")
    \/ ScrapeFails("manual")
    \/ ScrapePage("manual", ListingPages)
    \/ AfterCrawl("manual", BOOLEAN)

SpecCrawl == Init /\ [][NextCrawl]_vars

\* a listing of n anchors with the urls 1..n
Listing(n) == [i \in 1..n |-> [url |-> i, title |-> "hotmail"]]

\* listings with more new pastes than the extraction cap
CapInputs == {Listing(EXTRACT_CAP + 1), <<[url |-> EXTRACT_CAP + 1, title |-> "hotmail"]>>}

\* the timer alone, on listings longer than the extraction cap
NextCap ==
    \/ on_ready
    \/ on_resumed
    \/ Tick(MaxCapScans)
    \/ CycleStep("timer", CapInputs)

SpecCap == Init /\ [][NextCap]_vars

\* listings of up to EXTRACT_CAP pastes
DeliverInputs == {<<Listing(3)[3]>>, <<Listing(3)[1], Listing(3)[3], Listing(3)[2]>>,
                  Listing(EXTRACT_CAP)}

\* the timer alone, every call to a sink succeeding
NextDeliver ==
    \/ on_ready
    \/ on_resumed
    \/ Tick(MaxDeliverScans)
    \/ GetChannel("timer")
    \/ Launch("timer")
    \/ NewPage("timer")
    \/ Load("timer")
    \/ ScrapeFails("timer")
    \/ Scrape("timer", DeliverInputs)
    \/ AfterCrawl("timer", {TRUE})

SpecDeliver == Init /\ [][NextDeliver]_vars

\* ------------------------------------------------- functions on their own
\* the state of the program while a function is applied on its own
Quiet ==
    /\ Boot(NoFile)
    /\ mustBeSeen = {}
    /\ capped = {}

\* anchors whose titles differ
DedupAnchors == [url : Ids, title : {"hotmail a", "mixed b"}]

DedupInputs == SeqsUpTo(DedupAnchors, MaxAnchors)

InitDedup ==
    /\ Quiet
    /\ pure \in {[fn |-> "dedup", arg |-> found, done |-> FALSE, res |-> <<>>] :
                    found \in DedupInputs}

\* lines 290-296 applied to the anchors found
ApplyDedup ==
    /\ pure.fn = "dedup" /\ ~pure.done
    /\ pure' = [pure EXCEPT !.res = Dedup(pure.arg), !.done = TRUE]
    /\ UNCHANGED <<pc, scan_lock, stats, posted_urls, seenFile, loc, alertsSent, emptyAlert, mustBeSeen, capped>>

SpecDedup == InitDedup /\ [][ApplyDedup]_vars

InitValidate ==
    /\ Quiet
    /\ pure \in {[fn |-> "validate", arg |-> raw, done |-> FALSE, res |-> <<>>, again |-> <<>>] :
                    raw \in RawTexts}

\* extract_credentials applied to a raw text, and again to its joined result
ApplyValidate ==
    /\ pure.fn = "validate" /\ ~pure.done
    /\ LET creds == extract_credentials(pure.arg)
       IN  pure' = [pure EXCEPT !.res = creds, !.done = TRUE,
                                !.again = extract_credentials(JoinLines(creds))]
    /\ UNCHANGED <<pc, scan_lock, stats, posted_urls, seenFile, loc, alertsSent, emptyAlert, mustBeSeen, capped>>

SpecValidate == InitValidate /\ [][ApplyValidate]_vars

InitExtractRaw ==
    /\ Quiet
    /\ pure \in {[fn |-> "extract_raw", arg |-> batch, res |-> <<>>, aborted |-> FALSE] :
                    batch \in Batches}

\* lines 334-337: the loop over the batch calls extract_raw for the next paste;
\* an exception of extract_raw would leave the loop
ApplyExtractRaw ==
    /\ pure.fn = "extract_raw"
    /\ ~pure.aborted
    /\ Len(pure.res) < Len(pure.arg)
    /\ LET r == extract_raw(pure.arg[Len(pure.res) + 1])
       IN  pure' = [pure EXCEPT !.res = Append(@, r), !.aborted = r.raised]
    /\ UNCHANGED <<pc, scan_lock, stats, posted_urls, seenFile, loc, alertsSent, emptyAlert, mustBeSeen, capped>>

SpecExtractRaw == InitExtractRaw /\ [][ApplyExtractRaw]_vars

InFlight == {p \in Procs : pc[p] \in InCycle}

\* C1: at most one invocation is inside the guarded section at any time, the
\* lock is held exactly while one is, and no invocation ever waits on it.
C1_OneCycleAtATime ==
    /\ Cardinality(InFlight) <= 1
    /\ scan_lock <=> InFlight # {}
    /\ \A p \in Procs : pc[p] # "wait_lock"

\* a timer tick arrived during the manual cycle's extraction and stayed out
C1_Witness ==
    /\ pc["manual"] = "extract"
    /\ pc["timer"] = "idle"
    /\ loc["timer"].skipped

\* C2: within one process lifetime no url gets more than one "new item" message.
C2_AlertedAtMostOnce == \A x \in Ids : alertsSent[x] <= 1

\* a url alerted earlier is crawled again by a later cycle and is not new
C2_Witness ==
    \E p \in Procs, x \in Ids :
        /\ pc[p] = "resolve_content"
        /\ alertsSent[x] = 1
        /\ x \in Urls(loc[p].pastes)
        /\ x \notin Urls(loc[p].new_pastes)

\* C3: when extraction runs, every new url of the cycle is in posted_urls and,
\* if the write succeeded, in the file; after a crash during such an extraction
\* and a restart, those urls are seen and no later cycle takes them as new.
C3_PersistedBeforeExtract ==
    /\ \A p \in Procs :
          pc[p] = "extract" =>
             /\ Urls(loc[p].new_pastes) \subseteq posted_urls
             /\ loc[p].saved => Urls(loc[p].new_pastes) \subseteq load_seen(seenFile)
    /\ mustBeSeen \subseteq posted_urls
    /\ \A p \in Procs : Urls(loc[p].new_pastes) \cap mustBeSeen = {}

\* after the crash a cycle crawled the interrupted cycle's urls again
C3_Witness ==
    \E p \in Procs :
        /\ pc[p] = "close"
        /\ mustBeSeen # {}
        /\ mustBeSeen \subseteq Urls(loc[p].pastes)

\* C4: between restarts posted_urls only grows.
C4_SeenMonotonic == [][Restart \/ posted_urls \subseteq posted_urls']_vars

\* a cycle whose crawl failed ends with both urls still in the seen-set
C4_Witness ==
    \E p \in Procs :
        /\ pc[p] = "close"
        /\ loc[p].crawl_failed
        /\ posted_urls = Ids

\* C5: a cycle whose crawl failed reaches its end with the seen-set, the file,
\* every counter but scans and every sink as they were when it started.
C5_CrawlAbortNoEffect ==
    \A p \in Procs :
        (pc[p] = "close" /\ loc[p].crawl_failed) =>
            /\ loc[p].attempted = {}
            /\ posted_urls = loc[p].snap[1]
            /\ seenFile = loc[p].snap[2]
            /\ stats = [loc[p].snap[3] EXCEPT !.scans = @ + 1]
            /\ alertsSent = loc[p].snap[4]
            /\ emptyAlert = loc[p].snap[5]

\* the second cycle of a process found pastes the first time and now fails
C5_Witness ==
    \E p \in Procs :
        /\ pc[p] = "close"
        /\ loc[p].crawl_failed
        /\ stats.total_pastes > 0
        /\ posted_urls # {}

\* C6: no failure at any step makes monitor_loop raise to its caller.
C6_NeverRaises == \A p \in Procs : pc[p] # "raised"

\* C7: a cycle with new pastes and record blocks attempts every sink, whatever
\* fails.
C7_SinksIndependent ==
    \A p \in Procs :
        (pc[p] = "close" /\ loc[p].new_pastes # <<>> /\ loc[p].combined # <<>>) =>
            Sinks \subseteq loc[p].attempted

\* C8: in an unbroken streak the owner alert is attempted once, when the
\* streak count reaches EMPTY_SCAN_ALERT, and the count is not reset by it.
C8_AlertOnceAtThreshold ==
    emptyAlert.attempts = IF stats.empty_scans >= EMPTY_SCAN_ALERT THEN 1 ELSE 0

\* the streak went on past the threshold
C8_Witness ==
    /\ stats.empty_scans > EMPTY_SCAN_ALERT
    /\ emptyAlert.attempts = 1

\* C9 as claimed: the empty-streak alert is sent at most once per process.
C9_AlertOncePerProcess == emptyAlert.sent <= 1

\* C9 amended: the empty-streak alert is sent at most once per unbroken
\* streak, and only in a streak that has reached the threshold.
C9_AlertOncePerStreak ==
    /\ emptyAlert.streakSent <= 1
    /\ emptyAlert.streakSent = 1 => stats.empty_scans >= EMPTY_SCAN_ALERT

\* a second streak reached the threshold and the alert was sent again
C9_Witness ==
    /\ emptyAlert.sent = 2
    /\ emptyAlert.streakSent = 1

\* C10: an invocation that finds the guard held returns at once: nothing is
\* launched, sent, counted or marked, and nothing is left pending.
C10_DroppedWhenBusy ==
    [][\A p \in Procs :
         (pc[p] = "get_channel" /\ scan_lock /\ GetChannel(p)) =>
            /\ pc'[p] = AfterReturn(p)
            /\ loc'[p].attempted = {} /\ ~loc'[p].browser
            /\ \A q \in Procs \ {p} : pc'[q] = pc[q] /\ loc'[q] = loc[q]
            /\ UNCHANGED <<scan_lock, stats, posted_urls, seenFile, alertsSent, emptyAlert>>]_vars

\* a /scrape issued while the timer's cycle was sending alerts was dropped
C10_Witness ==
    /\ pc["timer"] = "alerts"
    /\ pc["manual"] = "followup"
    /\ loc["manual"].skipped

C12_OverrideHonoured ==
    pc["manual"] = "followup" =>
        /\ loc["manual"].cycled
        /\ loc["manual"].visited <= loc["manual"].pages

\* C19: the archive is loaded in at most LOAD_ATTEMPTS attempts: a failed
\* attempt before the last is followed by another, the last failed one ends the
\* cycle through the finally block and not by an exception, and after an
\* attempt that succeeded the pages are scraped and the archive is never loaded
\* again.
C19_BoundedRetry ==
    /\ [](\A p \in Procs : pc[p] = "load" => loc[p].attempt \in 0..(LOAD_ATTEMPTS - 1))
    /\ [][\A p \in Procs :
            /\ (pc[p] = "load" /\ pc'[p] # "load") =>
                  \/ pc'[p] = "scrape" /\ loc'[p].page_num = 0 /\ ~loc'[p].crawl_failed
                  \/ /\ pc'[p] = "close" /\ loc'[p].crawl_failed
                     /\ loc[p].attempt = LOAD_ATTEMPTS - 1
                     /\ loc'[p].browser
            /\ (pc[p] = "load" /\ pc'[p] = "load" /\ loc'[p] # loc[p]) =>
                  loc'[p].attempt = loc[p].attempt + 1
            /\ pc[p] \in InCycle \ {"new_page", "load"} => pc'[p] # "load"]_vars

\* the third attempt failed too and the cycle is at browser.close()
C19_Witness ==
    /\ pc["manual"] = "close"
    /\ loc["manual"].crawl_failed
    /\ loc["manual"].attempt = LOAD_ATTEMPTS - 1
    /\ loc["manual"].visited = 0

\* C20: at most PAGES_TO_SCAN pages are visited; on a page after the first,
\* when no button has a forward label or the first that has one is disabled
\* (disabled attribute present, or aria-disabled "true"), nothing is clicked,
\* no further page is visited and the cycle goes on, without the error path,
\* to the deduplication of what was found; otherwise that button is clicked
\* and one more page is visited.
C20_StopsWithoutError ==
    \A p \in Procs :
        /\ loc[p].visited <= PAGES_TO_SCAN
        /\ loc[p].page_num >= 2 =>
              LET c == loc[p].control
              IN  IF ~IsForward(c) \/ c.disabled # None \/ c.aria_disabled = "true"
                  THEN /\ loc[p].visited = loc[p].page_num - 1
                       /\ pc[p] \in InCycle \ {"scrape"}
                       /\ loc[p].pastes = Dedup(loc[p].found)
                       /\ ~loc[p].crawl_failed
                  ELSE /\ loc[p].visited = loc[p].page_num
                       /\ pc[p] = "scrape" \/ loc[p].page_num = PAGES_TO_SCAN \/ loc[p].crawl_failed

\* the second page's forward button was disabled and the cycle went on to the
\* alerts with the paste of the first page
C20_Witness ==
    /\ pc["manual"] = "alerts"
    /\ loc["manual"].stop = "disabled"
    /\ loc["manual"].visited = 1
    /\ loc["manual"].new_pastes # <<>>

\* C13: every new paste of a cycle is marked seen, the pastes fetched are the
\* first min(k, EXTRACT_CAP) of the k new ones in their order, and a paste that
\* was new beyond the cap is not fetched, in that cycle or a later one.
C13_CapHolds ==
    \A p \in Procs :
        LET new == loc[p].new_pastes
            cap == IF Len(new) < EXTRACT_CAP THEN Len(new) ELSE EXTRACT_CAP
        IN  /\ pc[p] \in InCycle => Urls(new) \subseteq posted_urls
            /\ loc[p].k <= cap
            /\ pc[p] = "extract" =>
                  /\ loc[p].k + 1 <= cap
                  /\ new[loc[p].k + 1].url \notin capped
            /\ pc[p] \in {"send_content", "dm_owner", "telegram"} => loc[p].k = cap

\* a later cycle crawls a paste that was beyond the cap and has nothing new
C13_Witness ==
    /\ pc["timer"] = "close"
    /\ capped # {}
    /\ capped \subseteq Urls(loc["timer"].pastes)
    /\ loc["timer"].new_pastes = <<>>
    /\ stats.total_combos = EXTRACT_CAP

\* C17: when no call to a sink fails, a cycle with n <= EXTRACT_CAP new pastes,
\* m of which yield accepted lines, has the n urls in the seen-set (and in the
\* file when the write succeeded), fetched all n, sent n alert messages and sent
\* one bundle of m blocks to the content channel if m >= 1, none if m = 0.
C17_DeliveryCounts ==
    \A p \in Procs :
        LET n == Len(loc[p].new_pastes)
            m == loc[p].yielding
        IN  (pc[p] = "close" /\ n >= 1 /\ n <= EXTRACT_CAP) =>
                /\ Urls(loc[p].new_pastes) \subseteq posted_urls
                /\ loc[p].saved => Urls(loc[p].new_pastes) \subseteq load_seen(seenFile)
                /\ loc[p].k = n
                /\ loc[p].alerted = n
                /\ loc[p].artifacts = IF m >= 1 THEN <<m>> ELSE <<>>

\* three anchors, one seen by the first cycle: two alerts, two fetched, one
\* bundle of one block
C17_Witness ==
    /\ pc["timer"] = "close"
    /\ Len(loc["timer"].pastes) = 3
    /\ Len(loc["timer"].new_pastes) = 2
    /\ loc["timer"].alerted = 2
    /\ loc["timer"].yielding = 1
    /\ loc["timer"].artifacts = <<1>>

\* C18: whatever the outcome of the write, a cycle with new pastes goes on to
\* the alerts with the new urls in posted_urls, and no cycle takes as new a url
\* that was in posted_urls when it started, written to the file or not.
C18_MemoryAuthoritative ==
    /\ [](\A p \in Procs :
            pc[p] \in InCycle =>
               /\ Urls(loc[p].new_pastes) \subseteq posted_urls
               /\ Urls(loc[p].new_pastes) \cap loc[p].snap[1] = {})
    /\ [][Restart \/ \A p \in Procs :
            (pc[p] = "post_all" /\ pc'[p] # "post_all"
               /\ NewPastes(loc[p].pastes, posted_urls) # <<>>) =>
                  /\ pc'[p] = "alerts"
                  /\ Urls(loc[p].pastes) \subseteq posted_urls']_vars

\* a url whose write failed is crawled again by a later cycle and is not new
C18_Witness ==
    \E p \in Procs : \E x \in Urls(loc[p].pastes) :
        /\ pc[p] = "close"
        /\ x \in loc[p].snap[1]
        /\ x \notin load_seen(loc[p].snap[2])
        /\ x \notin load_seen(seenFile)
        /\ x \notin Urls(loc[p].new_pastes)

\* C14: the deduplicated list has every url of the anchors found exactly
\* once, in the order of the urls' first occurrences, each with the title of
\* its first occurrence.
C14_DedupFirstWins ==
    (pure.fn = "dedup" /\ pure.done) =>
        LET found == pure.arg
            pastes == pure.res
            First(u) == CHOOSE i \in 1..Len(found) :
                           /\ found[i].url = u
                           /\ \A j \in 1..Len(found) : found[j].url = u => i <= j
        IN  /\ Urls(pastes) = Urls(found)
            /\ \A i, j \in 1..Len(pastes) :
                  i < j => /\ pastes[i].url # pastes[j].url
                           /\ First(pastes[i].url) < First(pastes[j].url)
            /\ \A i \in 1..Len(pastes) : pastes[i] = found[First(pastes[i].url)]

\* url 2 came back under another title after url 1
C14_Witness ==
    /\ pure.fn = "dedup" /\ pure.done
    /\ pure.arg = <<[url |-> 2, title |-> "hotmail a"], [url |-> 1, title |-> "mixed b"],
                    [url |-> 2, title |-> "mixed b"]>>
    /\ pure.res = <<[url |-> 2, title |-> "hotmail a"], [url |-> 1, title |-> "mixed b"]>>

\* C15: the result of extract_credentials has no line twice, holds exactly the
\* stripped lines of the raw text that are valid combos, in the order of their
\* first occurrences, and extract_credentials applied to the result joined by
\* newlines gives the same sequence.
C15_ValidatorIdempotent ==
    (pure.fn = "validate" /\ pure.done) =>
        LET creds == pure.res
            lines == SplitLines(pure.arg)
            First(c) == CHOOSE i \in 1..Len(lines) :
                           /\ Strip(lines[i]) = c
                           /\ \A j \in 1..Len(lines) : Strip(lines[j]) = c => i <= j
        IN  /\ \A i, j \in 1..Len(creds) : i < j => creds[i] # creds[j]
            /\ \A i \in 1..Len(creds) :
                  /\ is_valid_combo(creds[i])
                  /\ \E k \in 1..Len(lines) : Strip(lines[k]) = creds[i]
            /\ \A k \in 1..Len(lines) :
                  is_valid_combo(Strip(lines[k])) =>
                     \E i \in 1..Len(creds) : creds[i] = Strip(lines[k])
            /\ \A i, j \in 1..Len(creds) : i < j => First(creds[i]) < First(creds[j])
            /\ pure.again = creds

\* a combo in whitespace, then the same combo without
C15_Witness ==
    /\ pure.fn = "validate" /\ pure.done
    /\ Len(SplitLines(pure.arg)) = 2
    /\ SplitLines(pure.arg)[1] # SplitLines(pure.arg)[2]
    /\ Strip(SplitLines(pure.arg)[1]) = SplitLines(pure.arg)[2]
    /\ pure.res = <<SplitLines(pure.arg)[2]>>
    /\ pure.again = pure.res

\* C16: extract_raw does not raise, so the loop over the batch is never left
\* early; it navigates at most EXTRACT_ATTEMPTS times; it returns "" after
\* the last attempt, or else the non-blank value of one strategy of the
\* attempt it returned from: the editor buffer, or the rendered lines when the
\* buffer was blank, or the pre text when both were blank.
C16_ExtractRawTotal ==
    pure.fn = "extract_raw" =>
        /\ ~pure.aborted
        /\ \A i \in 1..Len(pure.res) :
              LET r == pure.res[i]
                  nav == pure.arg[i][r.navigations]
                  lines == LinesText(nav.lines)
              IN  /\ ~r.raised
                  /\ r.navigations \in 1..EXTRACT_ATTEMPTS
                  /\ r.raw # NoneText
                  /\ \/ r.raw = <<>> /\ r.navigations = EXTRACT_ATTEMPTS
                     \/ /\ Strip(r.raw) # <<>>
                        /\ \/ r.raw = nav.editor
                           \/ /\ r.raw = lines
                              /\ nav.editor = NoneText \/ Strip(nav.editor) = <<>>
                           \/ /\ r.raw = nav.pre /\ nav.has_pre
                              /\ nav.editor = NoneText \/ Strip(nav.editor) = <<>>
                              /\ Strip(lines) = <<>>

\* the first paste failed twice and the second paste was extracted
C16_Witness ==
    /\ pure.fn = "extract_raw"
    /\ Len(pure.res) = 2
    /\ pure.arg[1][1].exc = "goto"
    /\ pure.arg[1][2].exc = "lines"
    /\ pure.arg[1][2].editor = NoneText
    /\ pure.res[1].raw = <<>>
    /\ pure.res[2].raw = <<"e", "d">>

\* C21 as claimed: no "new item" message is sent before the extraction of the
\* cycle's capped new pastes has finished, and the scan is counted only once
\* the crawl has completed, where the list of all pastes is published.
C21_ExtractBeforeNotify ==
    \A p \in Procs :
        LET new == loc[p].new_pastes
            cap == IF Len(new) < EXTRACT_CAP THEN Len(new) ELSE EXTRACT_CAP
        IN  /\ (pc[p] \in InCycle /\ loc[p].alerted > 0) =>
                  /\ loc[p].k = cap
                  /\ pc[p] \notin {"resolve_content", "extract"}
            /\ pc[p] \in {"launch", "new_page", "load", "scrape"} =>
                  /\ stats.scans = loc[p].snap[3].scans
                  /\ "all" \notin loc[p].attempted

\* C21 amended: the scan is counted when the guard is taken, before the
\* crawl; nothing is sent during the crawl and the list of all pastes is
\* published after it; the "new item" messages are sent after the new urls are
\* marked seen and before the first paste is fetched; the bundle, the owner DM
\* and Telegram come after the last capped paste was fetched.
C21_NotifyBeforeExtract ==
    /\ [](\A p \in Procs :
            LET new == loc[p].new_pastes
                cap == IF Len(new) < EXTRACT_CAP THEN Len(new) ELSE EXTRACT_CAP
            IN  pc[p] \in InCycle =>
                   /\ stats.scans = loc[p].snap[3].scans + 1
                   /\ pc[p] \in {"launch", "new_page", "load", "scrape"} =>
                         loc[p].attempted = {} /\ loc[p].pastes = <<>>
                   /\ "alert" \in loc[p].attempted => Urls(new) \subseteq posted_urls
                   /\ pc[p] = "alerts" => loc[p].attempted \subseteq {"all"} /\ loc[p].k = 0
                   /\ pc[p] = "resolve_content" => "alert" \in loc[p].attempted /\ loc[p].k = 0
                   /\ pc[p] = "extract" => "alert" \in loc[p].attempted /\ loc[p].k < cap
                   /\ pc[p] \in {"send_content", "dm_owner", "telegram"} =>
                         "alert" \in loc[p].attempted /\ loc[p].k = cap)
    /\ [][Restart \/ \A p \in Procs :
            /\ loc'[p].alerted > loc[p].alerted =>
                  pc[p] = "alerts" /\ loc[p].k = 0 /\ loc'[p].k = 0
            /\ loc'[p].k > loc[p].k =>
                  pc[p] = "extract" /\ "alert" \in loc[p].attempted]_vars

\* both "new item" messages were sent and no paste has been fetched yet
C21_Witness ==
    \E p \in Procs :
        /\ pc[p] = "extract"
        /\ loc[p].k = 0
        /\ Len(loc[p].new_pastes) = 2
        /\ loc[p].alerted = 2

====
